---------------------------- MODULE Spec2Model ----------------------------
(***************************************************************************)
(* TestFlow backend: the task lifecycle handlers (task_handler.rs), the    *)
(* user handlers (user_handler.rs), login (auth_handler.rs) and the token  *)
(* functions (auth.rs), as a state machine over the two database tables,   *)
(* the wall clock and the requests in flight.                              *)
(*                                                                         *)
(* A handler that issues several SQL statements is one action per          *)
(* statement: every `.await` on a query is a point where another request   *)
(* may run.  Everything a handler does between two statements (permission  *)
(* checks, validation, computing the new column values) belongs to the     *)
(* action of the statement before it.                                      *)
(*                                                                         *)
(* Option<T> is a sequence of length at most one: <<>> is None and <<v>>   *)
(* is Some(v).                                                             *)
(***************************************************************************)
EXTENDS Integers, Sequences, FiniteSets, TLC

VARIABLES
    users,       \* table users: id -> Option<row>
    user_seq,    \* number of rows ever inserted into users (fresh ids)
    tasks,       \* table tasks: id -> Option<row>
    task_seq,    \* number of rows ever inserted into tasks (serial task_number, fresh ids)
    now,         \* the wall clock, in seconds
    config,      \* AppConfig, fixed at start-up
    tokens,      \* the tokens login has issued so far
    bearer,      \* the token of the latest event: the one presented, or the one login returned
    req,         \* per worker: the request it is handling
    served,      \* number of requests accepted so far
    last,        \* the latest event at the boundary: a request admitted to its second
                 \* statement (result Pending, with its caller) or a response sent
    ever_closed  \* history: ids of the tasks an UPDATE has ever given status done or closed

vars == <<users, user_seq, tasks, task_seq, now, config, tokens, bearer, req, served, last,
          ever_closed>>

userVars == <<users, user_seq>>
taskVars == <<tasks, task_seq, ever_closed>>
authVars == <<config, tokens, bearer>>

(***************************************************************************)
(* Bounds of the model.                                                    *)
(***************************************************************************)
MaxTasks == 1
MaxTime == 1
MaxRequests == 3
MaxUsers == 3

\* Two requests at a time: every claim about concurrency is about a pair of requests.
Workers == {"w1", "w2"}
TaskIds == 1..MaxTasks
UserIds == 1..MaxUsers

(***************************************************************************)
(* Option helpers (core::option).                                          *)
(***************************************************************************)
None == <<>>
Some(v) == <<v>>
IsSome(o) == o # <<>>
unwrap_or(o, d) == IF o # <<>> THEN o[1] ELSE d
or(o, other) == IF o # <<>> THEN o ELSE other

(***************************************************************************)
(* models.rs: the enumerations and their wire / column strings.            *)
(***************************************************************************)
UserRole == {"Admin", "Manager", "Tester", "Developer"}
TaskStatus == {"New", "InProgress", "Testing", "Done", "Closed"}
TaskUrgency == {"Low", "Medium", "High", "Critical"}

UserRole_to_string(r) ==
    CASE r = "Admin" -> "admin"
      [] r = "Manager" -> "manager"
      [] r = "Tester" -> "tester"
      [] r = "Developer" -> "developer"

TaskStatus_to_string(s) ==
    CASE s = "New" -> "new"
      [] s = "InProgress" -> "in_progress"
      [] s = "Testing" -> "testing"
      [] s = "Done" -> "done"
      [] s = "Closed" -> "closed"

TaskUrgency_to_string(u) ==
    CASE u = "Low" -> "low"
      [] u = "Medium" -> "medium"
      [] u = "High" -> "high"
      [] u = "Critical" -> "critical"

\* sqlx::Type decoding of the enum columns (the #[sqlx(rename = ...)] attributes).
UserRole_decode(s) == CHOOSE r \in UserRole : UserRole_to_string(r) = s
TaskStatus_decode(s) == CHOOSE v \in TaskStatus : TaskStatus_to_string(v) = s
TaskUrgency_decode(s) == CHOOSE u \in TaskUrgency : TaskUrgency_to_string(u) = s

(***************************************************************************)
(* Responses.  An error is the AppError variant and its message.           *)
(***************************************************************************)
Ok(kind) == [kind |-> kind, msg |-> ""]
Err(kind, msg) == [kind |-> kind, msg |-> msg]
NoResult == [kind |-> "none", msg |-> ""]

\* `payload.validate()?`: a ValidationErrors converted by `?` (errors.rs).
ValidationError == Err("BadRequest", "validation")
\* `.await?` on a query that fails (fetch_one finding no row): sqlx::Error by `?`.
StorageError == Err("Internal", "storage")

(***************************************************************************)
(* auth.rs: the authenticated caller handed to a handler.                  *)
(***************************************************************************)
AuthUser == [user_id : UserIds, username : {"admin", "bob"}, role : UserRole]

\* The callers of the task specification: user 1 with a token issued while it was an
\* Admin and one issued while it was a Tester, user 2 likewise as Manager and Developer.
\* Every role meets a task it created (but for Admin's via its other token) and one it
\* did not.
Sessions ==
    { [user_id |-> 1, username |-> "admin", role |-> "Admin"],
      [user_id |-> 1, username |-> "admin", role |-> "Tester"],
      [user_id |-> 2, username |-> "bob", role |-> "Manager"],
      [user_id |-> 2, username |-> "bob", role |-> "Developer"] }
\* The check taken for the manager check: the role compared is the wrong one.
is_admin_AsManager(auth) == auth.role = "Manager"

is_admin(auth) == auth.role = "Admin"
is_manager(auth) == auth.role = "Manager"

(***************************************************************************)
(* Requests in flight.                                                     *)
(***************************************************************************)
NoAuth == [user_id |-> 0, username |-> "", role |-> "none"]
\* What a handler still holds of its request while it awaits its second statement.
IdleReq == [pc |-> "idle", id |-> 0, payload |-> <<>>, existing |-> <<>>, closed_at |-> <<>>]

NoResponse == [op |-> "none", auth |-> NoAuth, id |-> 0, result |-> NoResult, body |-> <<>>]

\* The worker is free: it holds no request.
Free(w) == req[w].pc = "idle"

\* Worker w takes the next request off the listener.  Which of the free workers takes
\* it makes no difference to what follows: the first free one does.
Accept(w) ==
    /\ Free(w)
    /\ w = "w2" => ~Free("w1")
    /\ served < MaxRequests
    /\ served' = served + 1

Pending == [kind |-> "pending", msg |-> ""]

\* The handler has passed its checks and awaits its next statement.
Proceed(w, op, auth, id, slot) ==
    /\ req' = [req EXCEPT ![w] = slot]
    /\ last' = [op |-> op, auth |-> auth, id |-> id, result |-> Pending, body |-> <<>>]

\* The handler returns `result`; what it held of the request is dropped.
Respond(w, op, auth, id, result) ==
    /\ req' = [req EXCEPT ![w] = IdleReq]
    /\ last' = [op |-> op, auth |-> auth, id |-> id, result |-> result, body |-> <<>>]

\* The handler returns Ok with the rows it has read.
RespondRows(w, op, auth, id, rows) ==
    /\ req' = [req EXCEPT ![w] = IdleReq]
    /\ last' = [op |-> op, auth |-> auth, id |-> id, result |-> Ok("Ok"), body |-> rows]


(***************************************************************************)
(* The tasks table.  The enum columns hold the column strings; a SELECT    *)
(* decodes them into the Task struct (models.rs).                          *)
(***************************************************************************)
\* Column defaults of INSERT INTO tasks, which names neither status nor closed_at.
DefaultStatus == "new"
DefaultClosedAt == None

FromRow(row) ==
    [row EXCEPT !.status = TaskStatus_decode(@), !.urgency = TaskUrgency_decode(@)]

\* SELECT ... FROM tasks WHERE id = $1, fetch_optional.
SelectTask(id) ==
    IF id \in DOMAIN tasks /\ IsSome(tasks[id]) THEN Some(FromRow(tasks[id][1])) ELSE None

\* #[validate(length(min = 1, max = 255))] on title; the model's only invalid title is "".
ValidTitle(t) == t # ""
ValidCreate(p) == ValidTitle(p.title)
ValidUpdate(p) == IsSome(p.title) => ValidTitle(p.title[1])

(***************************************************************************)
(* Time.                                                                   *)
(***************************************************************************)
Tick(d, max) ==
    /\ now + d <= max
    /\ now' = now + d
    /\ UNCHANGED <<userVars, taskVars, authVars, req, served, last>>

(***************************************************************************)
(* create_task                                                             *)
(***************************************************************************)
\* The urgency stored is the default whatever the request says.
CreateUrgency_AlwaysDefault(p) == "medium"

CreateUrgency(p) ==
    IF IsSome(p.urgency) THEN TaskUrgency_to_string(p.urgency[1]) ELSE "medium"

InsertedTask(id, auth, p) ==
    [id |-> id, task_number |-> id, title |-> p.title, description |-> p.description,
     assigned_by |-> auth.user_id, tester_id |-> p.tester_id,
     status |-> DefaultStatus, urgency |-> CreateUrgency(p),
     created_at |-> now, closed_at |-> DefaultClosedAt,
     acceptance_criteria |-> p.acceptance_criteria,
     evaluation_criteria |-> p.evaluation_criteria, comment |-> p.comment]

CreateTask(w, auth, p) ==
    /\ Accept(w)
    /\ IF is_admin(auth)
       THEN /\ Respond(w, "create_task", auth, 0,
                       Err("Forbidden", "Administrators cannot create tasks"))
            /\ UNCHANGED <<tasks, task_seq>>
       ELSE IF ~ValidCreate(p)
       THEN /\ Respond(w, "create_task", auth, 0, ValidationError)
            /\ UNCHANGED <<tasks, task_seq>>
       ELSE /\ task_seq < MaxTasks
            /\ task_seq' = task_seq + 1
            /\ tasks' = [tasks EXCEPT ![task_seq + 1] =
                            Some(InsertedTask(task_seq + 1, auth, p))]
            /\ Respond(w, "create_task", auth, task_seq + 1, Ok("Created"))
    /\ UNCHANGED <<userVars, authVars, now, ever_closed>>

(***************************************************************************)
(* update_task: SELECT, then UPDATE.                                       *)
(***************************************************************************)
IsClosing(status) == status = "Closed" \/ status = "Done"

new_status(p, existing) == unwrap_or(p.status, existing.status)

\* task_handler.rs 267-271, evaluated at time t.
\* The closing timestamp set for status Closed only.
ComputeClosedAt_ClosedOnly(p, existing, t) ==
    IF new_status(p, existing) = "Closed" THEN Some(t) ELSE existing.closed_at

ComputeClosedAt(p, existing, t) ==
    IF IsClosing(new_status(p, existing)) THEN Some(t) ELSE existing.closed_at

\* The UPDATE with the closing time bound to created_at as well.
UpdatedRow_StampsCreatedAt(row, p, existing, closed_at) ==
    [row EXCEPT
        !.title = unwrap_or(p.title, existing.title),
        !.description = or(p.description, existing.description),
        !.tester_id = or(p.tester_id, existing.tester_id),
        !.status = TaskStatus_to_string(new_status(p, existing)),
        !.urgency = TaskUrgency_to_string(unwrap_or(p.urgency, existing.urgency)),
        !.acceptance_criteria = or(p.acceptance_criteria, existing.acceptance_criteria),
        !.evaluation_criteria = or(p.evaluation_criteria, existing.evaluation_criteria),
        !.comment = or(p.comment, existing.comment),
        !.closed_at = closed_at,
        !.created_at = unwrap_or(closed_at, row.created_at)]

\* The values bound to $1..$9 of the UPDATE.
UpdatedRow(row, p, existing, closed_at) ==
    [row EXCEPT
        !.title = unwrap_or(p.title, existing.title),
        !.description = or(p.description, existing.description),
        !.tester_id = or(p.tester_id, existing.tester_id),
        !.status = TaskStatus_to_string(new_status(p, existing)),
        !.urgency = TaskUrgency_to_string(unwrap_or(p.urgency, existing.urgency)),
        !.acceptance_criteria = or(p.acceptance_criteria, existing.acceptance_criteria),
        !.evaluation_criteria = or(p.evaluation_criteria, existing.evaluation_criteria),
        !.comment = or(p.comment, existing.comment),
        !.closed_at = closed_at]

\* update_task that looks the task up before it looks at the caller's role.
UpdateTaskBegin_ExistenceFirst(w, auth, id, p) ==
    /\ Accept(w)
    /\ IF SelectTask(id) = None
       THEN Respond(w, "update_task", auth, id, Err("NotFound", "Task not found"))
       ELSE IF is_admin(auth)
       THEN Respond(w, "update_task", auth, id,
                    Err("Forbidden", "Administrators cannot edit tasks"))
       ELSE IF ~ValidUpdate(p)
       THEN Respond(w, "update_task", auth, id, ValidationError)
       ELSE Proceed(w, "update_task", auth, id,
                [pc |-> "update_write", id |-> id, payload |-> p,
                 existing |-> SelectTask(id)[1],
                 closed_at |-> ComputeClosedAt(p, SelectTask(id)[1], now)])
    /\ UNCHANGED <<userVars, taskVars, authVars, now>>

UpdateTaskBegin(w, auth, id, p) ==
    /\ Accept(w)
    /\ IF is_admin(auth)
       THEN Respond(w, "update_task", auth, id,
                    Err("Forbidden", "Administrators cannot edit tasks"))
       ELSE IF ~ValidUpdate(p)
       THEN Respond(w, "update_task", auth, id, ValidationError)
       ELSE IF SelectTask(id) = None
       THEN Respond(w, "update_task", auth, id, Err("NotFound", "Task not found"))
       ELSE Proceed(w, "update_task", auth, id,
                [pc |-> "update_write", id |-> id, payload |-> p,
                 existing |-> SelectTask(id)[1],
                 closed_at |-> ComputeClosedAt(p, SelectTask(id)[1], now)])
    /\ UNCHANGED <<userVars, taskVars, authVars, now>>

UpdateTaskWrite(w) ==
    /\ req[w].pc = "update_write"
    /\ LET r == req[w] IN
       IF IsSome(tasks[r.id])
       THEN /\ tasks' = [tasks EXCEPT ![r.id] =
                    Some(UpdatedRow(tasks[r.id][1], r.payload, r.existing, r.closed_at))]
            /\ ever_closed' = IF IsClosing(new_status(r.payload, r.existing))
                              THEN ever_closed \cup {r.id} ELSE ever_closed
            /\ Respond(w, "update_task", NoAuth, r.id, Ok("Ok"))
       ELSE /\ Respond(w, "update_task", NoAuth, r.id, StorageError)
            /\ UNCHANGED <<tasks, ever_closed>>
    /\ UNCHANGED <<userVars, authVars, task_seq, now, served>>

(***************************************************************************)
(* delete_task: SELECT, then DELETE.                                       *)
(***************************************************************************)
\* task_handler.rs 343: the caller may delete the task it has read.
\* The ownership check without the manager exemption.
MayDelete_CreatorOnly(auth, task) == task.assigned_by = auth.user_id

MayDelete(auth, task) == ~(task.assigned_by # auth.user_id /\ ~is_manager(auth))

\* delete_task that runs its DELETE before the ownership check.
DeleteTaskBegin_DeletesFirst(w, auth, id) ==
    /\ Accept(w)
    /\ IF is_admin(auth)
       THEN /\ Respond(w, "delete_task", auth, id,
                       Err("Forbidden", "Administrators cannot manage tasks"))
            /\ UNCHANGED tasks
       ELSE IF SelectTask(id) = None
       THEN /\ Respond(w, "delete_task", auth, id, Err("NotFound", "Task not found"))
            /\ UNCHANGED tasks
       ELSE /\ tasks' = [tasks EXCEPT ![id] = None]
            /\ IF ~MayDelete(auth, SelectTask(id)[1])
                 THEN Respond(w, "delete_task", auth, id,
                        Err("Forbidden", "Only the task creator or a manager can delete tasks"))
                 ELSE Respond(w, "delete_task", auth, id, Ok("NoContent"))
    /\ UNCHANGED <<userVars, task_seq, ever_closed, authVars, now>>

DeleteTaskBegin(w, auth, id) ==
    /\ Accept(w)
    /\ IF is_admin(auth)
       THEN Respond(w, "delete_task", auth, id,
                    Err("Forbidden", "Administrators cannot manage tasks"))
       ELSE IF SelectTask(id) = None
       THEN Respond(w, "delete_task", auth, id, Err("NotFound", "Task not found"))
       ELSE IF ~MayDelete(auth, SelectTask(id)[1])
       THEN Respond(w, "delete_task", auth, id,
                    Err("Forbidden", "Only the task creator or a manager can delete tasks"))
       ELSE Proceed(w, "delete_task", auth, id,
                [pc |-> "delete_exec", id |-> id, payload |-> <<>>,
                 existing |-> SelectTask(id)[1], closed_at |-> <<>>])
    /\ UNCHANGED <<userVars, taskVars, authVars, now>>

\* DELETE FROM tasks WHERE id = $1; rows_affected is not looked at.
DeleteTaskExec(w) ==
    /\ req[w].pc = "delete_exec"
    /\ tasks' = [tasks EXCEPT ![req[w].id] = None]
    /\ Respond(w, "delete_task", NoAuth, req[w].id, Ok("NoContent"))
    /\ UNCHANGED <<userVars, authVars, task_seq, now, served, ever_closed>>

(***************************************************************************)
(* Request bodies the task specification draws from.                       *)
(***************************************************************************)
NoUpdate ==
    [title |-> None, description |-> None, tester_id |-> None, status |-> None,
     urgency |-> None, acceptance_criteria |-> None, evaluation_criteria |-> None,
     comment |-> None]

CreateBodies ==
    { [title |-> "t1", description |-> None, tester_id |-> None, urgency |-> None,
       acceptance_criteria |-> None, evaluation_criteria |-> None, comment |-> None],
      [title |-> "", description |-> None, tester_id |-> None, urgency |-> None,
       acceptance_criteria |-> None, evaluation_criteria |-> None, comment |-> None] }

\* A member of a JSON object: missing, null, or carrying a value.
JsonAbsent == <<"absent">>
JsonNull == <<"null">>
JsonValue(v) == <<"value", v>>

\* serde's Deserialize for an Option<T> field: a missing member and a null member
\* both give None.
Option_deserialize(member) == IF member[1] = "value" THEN Some(member[2]) ELSE None

\* Deserialize of UpdateTaskRequest: every field an Option, the two enums by their
\* serde names.
UpdateTaskRequest_deserialize(body) ==
    [title |-> Option_deserialize(body.title),
     description |-> Option_deserialize(body.description),
     tester_id |-> Option_deserialize(body.tester_id),
     status |-> IF body.status[1] = "value"
                  THEN Some(TaskStatus_decode(body.status[2])) ELSE None,
     urgency |-> IF body.urgency[1] = "value"
                   THEN Some(TaskUrgency_decode(body.urgency[2])) ELSE None,
     acceptance_criteria |-> Option_deserialize(body.acceptance_criteria),
     evaluation_criteria |-> Option_deserialize(body.evaluation_criteria),
     comment |-> Option_deserialize(body.comment)]

\* The JSON object {}.
NoMembers ==
    [title |-> JsonAbsent, description |-> JsonAbsent, tester_id |-> JsonAbsent,
     status |-> JsonAbsent, urgency |-> JsonAbsent, acceptance_criteria |-> JsonAbsent,
     evaluation_criteria |-> JsonAbsent, comment |-> JsonAbsent]

\* The JSON bodies sent to update_task: nothing, one field, tester_id null, or every
\* field, so that each field is both carried and omitted.
UpdateJson ==
    {NoMembers, [NoMembers EXCEPT !.tester_id = JsonNull],
     [NoMembers EXCEPT !.title = JsonValue("t2")], [NoMembers EXCEPT !.title = JsonValue("")]}
    \cup {[NoMembers EXCEPT !.status = JsonValue(TaskStatus_to_string(s))] : s \in TaskStatus}
    \cup { [title |-> JsonValue("t2"), description |-> JsonValue("d2"),
            tester_id |-> JsonValue(2), status |-> JsonValue("testing"),
            urgency |-> JsonValue("high"), acceptance_criteria |-> JsonValue("a2"),
            evaluation_criteria |-> JsonValue("e2"), comment |-> JsonValue("c2")] }

\* What the handler receives of them.
UpdateBodies == {UpdateTaskRequest_deserialize(body) : body \in UpdateJson}

(***************************************************************************)
(* The task lifecycle under concurrent requests.                           *)
(***************************************************************************)
\* An argon2 hash carries its salt and verifies against the password it was made from
\* and no other: the model keeps of the hash the password alone.
hash_password(password) == <<"argon2", password>>
verify_password(password, hash) == hash = <<"argon2", password>>

SeedAdmin ==
    [id |-> 1, username |-> "admin", email |-> "admin@testflow.local",
     password_hash |-> hash_password("admin123"), full_name |-> "System Administrator",
     role |-> "admin", is_active |-> TRUE]

Init ==
    /\ users = [u \in UserIds |-> IF u = 1 THEN Some(SeedAdmin) ELSE None]
    /\ user_seq = 1
    /\ bearer = None
    /\ tasks = [t \in TaskIds |-> None]
    /\ task_seq = 0
    /\ now = 0
    /\ config = [jwt_secret |-> "secret", jwt_expiration_hours |-> 24]
    /\ tokens = {}
    /\ req = [w \in Workers |-> IdleReq]
    /\ served = 0
    /\ last = NoResponse
    /\ ever_closed = {}

Next ==
    \/ Tick(1, MaxTime)
    \/ \E w \in Workers, auth \in Sessions, p \in CreateBodies : CreateTask(w, auth, p)
    \/ \E w \in Workers, auth \in Sessions, id \in TaskIds, p \in UpdateBodies :
          UpdateTaskBegin(w, auth, id, p)
    \/ \E w \in Workers : UpdateTaskWrite(w)
    \/ \E w \in Workers, auth \in Sessions, id \in TaskIds : DeleteTaskBegin(w, auth, id)
    \/ \E w \in Workers : DeleteTaskExec(w)

Spec == Init /\ [][Next]_vars



(***************************************************************************)
(* The users table.  A row keeps the role as the text of the user_role     *)
(* column; a SELECT decodes it.                                            *)
(***************************************************************************)
UserExists(id) == id \in UserIds /\ IsSome(users[id])
UserFromRow(row) == [row EXCEPT !.role = UserRole_decode(@)]
SelectUser(id) == IF UserExists(id) THEN Some(UserFromRow(users[id][1])) ELSE None
\* SELECT ... WHERE username = $1
SelectByUsername(username) ==
    LET found == {u \in UserIds : IsSome(users[u]) /\ users[u][1].username = username}
    IN  IF found = {} THEN None ELSE Some(UserFromRow(users[CHOOSE u \in found : TRUE][1]))
\* The lookup by username alone.
SelectByUsernameOrEmail_UsernameOnly(username, email) ==
    {u \in UserIds : IsSome(users[u]) /\ users[u][1].username = username}

\* SELECT id FROM users WHERE username = $1 OR email = $2
SelectByUsernameOrEmail(username, email) ==
    {u \in UserIds : IsSome(users[u])
                     /\ (users[u][1].username = username \/ users[u][1].email = email)}
\* The UNIQUE constraints of the users table on username and on email: a row `id`
\* with this username and email would collide with another row.
UniqueViolation(id, username, email) == SelectByUsernameOrEmail(username, email) \ {id} # {}
DefaultIsActive == TRUE

\* The names the model draws that are shorter than the validator's minimum.
ValidUsername(s) == s \notin {"", "ab"}
ValidPassword(s) == s \notin {"", "short"}
ValidCreateUser(p) == ValidUsername(p.username) /\ ValidPassword(p.password)
ValidUpdateUser(p) ==
    /\ IsSome(p.username) => ValidUsername(p.username[1])
    /\ IsSome(p.password) => ValidPassword(p.password[1])

\* The admin check that lets every caller through.
require_admin_Anyone(auth) == Ok("Ok")
\* The admin check that lets managers through as well.
require_admin_OrManager(auth) ==
    IF is_admin(auth) \/ is_manager(auth) THEN Ok("Ok")
    ELSE Err("Forbidden", "Only administrators can manage users")

\* The admin check made on the role stored for the caller, not on the token's.
require_admin_StoredRole(auth) ==
    IF UserExists(auth.user_id) /\ users[auth.user_id][1].role = "admin" THEN Ok("Ok")
    ELSE Err("Forbidden", "Only administrators can manage users")

\* require_admin answers Ok or the error the handler returns at once.
require_admin(auth) ==
    IF is_admin(auth) THEN Ok("Ok") ELSE Err("Forbidden", "Only administrators can manage users")

(***************************************************************************)
(* create_user: the SELECT for a taken name, then the INSERT.              *)
(***************************************************************************)
InsertedUser(id, p) ==
    [id |-> id, username |-> p.username, email |-> p.email,
     password_hash |-> hash_password(p.password), full_name |-> p.full_name,
     role |-> UserRole_to_string(p.role), is_active |-> DefaultIsActive]

\* The creations admitted and not yet inserted.
Inserting == {w \in Workers : req[w].pc = "create_user_insert"}

CreateUserBegin(w, auth, p) ==
    /\ Accept(w)
    /\ IF require_admin(auth).kind # "Ok"
         THEN Respond(w, "create_user", auth, 0, require_admin(auth))
       ELSE IF ~ValidCreateUser(p)
         THEN Respond(w, "create_user", auth, 0, ValidationError)
       ELSE IF SelectByUsernameOrEmail(p.username, p.email) # {}
         THEN Respond(w, "create_user", auth, 0,
                      Err("Conflict", "Username or email already exists"))
       ELSE /\ user_seq + Cardinality(Inserting) < MaxUsers
            /\ Proceed(w, "create_user", auth, 0,
                       [IdleReq EXCEPT !.pc = "create_user_insert", !.payload = p])
    /\ UNCHANGED <<userVars, taskVars, authVars, now>>

CreateUserInsert(w) ==
    /\ req[w].pc = "create_user_insert"
    /\ LET p == req[w].payload
           id == user_seq + 1
       IN  IF UniqueViolation(id, p.username, p.email)
             THEN /\ Respond(w, "create_user", NoAuth, 0, StorageError)
                  /\ UNCHANGED userVars
             ELSE /\ users' = [users EXCEPT ![id] = Some(InsertedUser(id, p))]
                  /\ user_seq' = id
                  /\ Respond(w, "create_user", NoAuth, id, Ok("Created"))
    /\ UNCHANGED <<taskVars, authVars, now, served>>

(***************************************************************************)
(* update_user: the SELECT of the row, then the UPDATE of every column.    *)
(***************************************************************************)
UpdatedUser(row, p, existing) ==
    [row EXCEPT !.username = unwrap_or(p.username, existing.username),
                !.email = unwrap_or(p.email, existing.email),
                !.full_name = unwrap_or(p.full_name, existing.full_name),
                !.role = UserRole_to_string(unwrap_or(p.role, existing.role)),
                !.is_active = unwrap_or(p.is_active, existing.is_active),
                !.password_hash = IF IsSome(p.password) THEN hash_password(p.password[1])
                                  ELSE existing.password_hash]

UpdateUserBegin(w, auth, id, p) ==
    /\ Accept(w)
    /\ IF require_admin(auth).kind # "Ok"
         THEN Respond(w, "update_user", auth, id, require_admin(auth))
       ELSE IF ~ValidUpdateUser(p)
         THEN Respond(w, "update_user", auth, id, ValidationError)
       ELSE IF SelectUser(id) = None
         THEN Respond(w, "update_user", auth, id, Err("NotFound", "User not found"))
       ELSE Proceed(w, "update_user", auth, id,
                    [IdleReq EXCEPT !.pc = "update_user_write", !.id = id, !.payload = p,
                                    !.existing = SelectUser(id)[1]])
    /\ UNCHANGED <<userVars, taskVars, authVars, now>>

UpdateUserWrite(w) ==
    /\ req[w].pc = "update_user_write"
    /\ LET r == req[w]
           row == UpdatedUser(users[r.id][1], r.payload, r.existing)
       IN  IF UserExists(r.id) /\ ~UniqueViolation(r.id, row.username, row.email)
             THEN /\ users' = [users EXCEPT ![r.id] = Some(row)]
                  /\ Respond(w, "update_user", NoAuth, r.id, Ok("Ok"))
             ELSE /\ Respond(w, "update_user", NoAuth, r.id, StorageError)
                  /\ UNCHANGED users
    /\ UNCHANGED <<user_seq, taskVars, authVars, now, served>>

(***************************************************************************)
(* delete_user: one DELETE, after the two checks.                          *)
(***************************************************************************)
DeleteUser(w, auth, id) ==
    /\ Accept(w)
    /\ IF require_admin(auth).kind # "Ok"
         THEN /\ Respond(w, "delete_user", auth, id, require_admin(auth))
              /\ UNCHANGED users
       ELSE IF id = auth.user_id
         THEN /\ Respond(w, "delete_user", auth, id,
                         Err("BadRequest", "Cannot delete your own account"))
              /\ UNCHANGED users
       ELSE IF ~UserExists(id)
         THEN /\ Respond(w, "delete_user", auth, id, Err("NotFound", "User not found"))
              /\ UNCHANGED users
       ELSE /\ users' = [users EXCEPT ![id] = None]
            /\ Respond(w, "delete_user", auth, id, Ok("NoContent"))
    /\ UNCHANGED <<user_seq, taskVars, authVars, now>>

(***************************************************************************)
(* get_me: the caller's own row.                                           *)
(***************************************************************************)
\* get_me that also refuses a caller whose account is inactive.
GetMe_ActiveOnly(w, auth) ==
    /\ Accept(w)
    /\ IF SelectUser(auth.user_id) = None
         THEN Respond(w, "get_me", auth, auth.user_id, Err("NotFound", "User not found"))
       ELSE IF ~SelectUser(auth.user_id)[1].is_active
         THEN Respond(w, "get_me", auth, auth.user_id, Err("Forbidden", "Account is deactivated"))
       ELSE Respond(w, "get_me", auth, auth.user_id, Ok("Ok"))
    /\ UNCHANGED <<userVars, taskVars, config, tokens, now>>

GetMe(w, auth) ==
    /\ Accept(w)
    /\ IF SelectUser(auth.user_id) = None
         THEN Respond(w, "get_me", auth, auth.user_id, Err("NotFound", "User not found"))
         ELSE Respond(w, "get_me", auth, auth.user_id, Ok("Ok"))
    /\ UNCHANGED <<userVars, taskVars, config, tokens, now>>

(***************************************************************************)
(* Pagination of get_tasks and get_users.                                  *)
(***************************************************************************)
DefaultPage == 1
DefaultPerPage == 20
MinPerPage == 1
MaxPerPage == 100

(***************************************************************************)
(* i64: page, per_page and offset are 64-bit signed integers.  A value is  *)
(* its two's complement, four limbs of 16 bits, least significant first.   *)
(***************************************************************************)
Limb == 2^16
SignBit == 2^15

\* The i64 of a literal n, -2^31 < n < 2^31.
i64(n) ==
    LET q1 == n \div Limb
        q2 == q1 \div Limb
        q3 == q2 \div Limb
    IN  <<n % Limb, q1 % Limb, q2 % Limb, q3 % Limb>>
i64_MAX == <<Limb - 1, Limb - 1, Limb - 1, SignBit - 1>>
i64_MIN == <<0, 0, 0, SignBit>>

is_negative(x) == x[4] >= SignBit
\* x < y of the limbs read as unsigned numbers.
unsigned_lt(x, y) ==
    IF x[4] # y[4] THEN x[4] < y[4]
    ELSE IF x[3] # y[3] THEN x[3] < y[3]
    ELSE IF x[2] # y[2] THEN x[2] < y[2]
    ELSE x[1] < y[1]
\* x < y of i64.
lt(x, y) ==
    IF is_negative(x) # is_negative(y) THEN is_negative(x) ELSE unsigned_lt(x, y)

\* The value of an i64 that lies in 0 .. 2^31 - 1, as a number of rows.
as_rows(x) == x[1] + x[2] * Limb

\* x - y, wrapped to 64 bits, and whether the difference is out of the range of i64.
wrapping_sub(x, y) ==
    LET d1 == x[1] - y[1]
        d2 == x[2] - y[2] - (IF d1 < 0 THEN 1 ELSE 0)
        d3 == x[3] - y[3] - (IF d2 < 0 THEN 1 ELSE 0)
        d4 == x[4] - y[4] - (IF d3 < 0 THEN 1 ELSE 0)
    IN  <<d1 % Limb, d2 % Limb, d3 % Limb, d4 % Limb>>
sub_overflows(x, y) ==
    /\ is_negative(x) # is_negative(y)
    /\ is_negative(wrapping_sub(x, y)) # is_negative(x)

\* x * y for x >= 0 and 0 <= y < 2^15, which is what lines 76 and 77 leave of page - 1
\* and per_page: the product limb by limb, the carry out of the top limb, the product
\* wrapped to 64 bits, and whether the product is out of the range of i64.
MulLimbs(x, y) ==
    LET p1 == x[1] * y[1]
        p2 == x[2] * y[1] + p1 \div Limb
        p3 == x[3] * y[1] + p2 \div Limb
        p4 == x[4] * y[1] + p3 \div Limb
    IN  <<p1, p2, p3, p4>>
wrapping_mul(x, y) ==
    LET p == MulLimbs(x, y) IN <<p[1] % Limb, p[2] % Limb, p[3] % Limb, p[4] % Limb>>
mul_overflows(x, y) ==
    \/ MulLimbs(x, y)[4] \div Limb > 0
    \/ is_negative(wrapping_mul(x, y))

\* i64::max and i64::clamp.
max(a, b) == IF lt(a, b) THEN b ELSE a
\* clamp that bounds from above only.
clamp_UpperOnly(x, lo, hi) == IF lt(hi, x) THEN hi ELSE x

clamp(x, lo, hi) == IF lt(x, lo) THEN lo ELSE IF lt(hi, x) THEN hi ELSE x

\* let page, let per_page, let offset.  `offset` is the product a build without
\* overflow checks computes; a build with them panics when OffsetOverflows.
\* (A bound variable over a singleton set is `let`: the value is computed once.)
EffectivePage(params) == max(unwrap_or(params.page, i64(DefaultPage)), i64(1))
EffectivePerPage(params) ==
    clamp(unwrap_or(params.per_page, i64(DefaultPerPage)), i64(MinPerPage), i64(MaxPerPage))
Offset(params) ==
    CHOOSE offset \in {wrapping_mul(wrapping_sub(page, i64(1)), per_page) :
                          page \in {EffectivePage(params)},
                          per_page \in {EffectivePerPage(params)}} : TRUE
OffsetOverflows(params) ==
    \E page \in {EffectivePage(params)}, per_page \in {EffectivePerPage(params)} :
       \/ sub_overflows(page, i64(1))
       \/ \E before \in {wrapping_sub(page, i64(1))} : mul_overflows(before, per_page)

\* ORDER BY key DESC over the rows S: every sequence of all of S in which the key
\* never increases.  Rows that have the same key come in whatever order the storage
\* engine produces.
RECURSIVE OrderByDesc(_, _)
OrderByDesc(S, key) ==
    IF S = {} THEN {<<>>}
    ELSE UNION {{<<x>> \o rest : rest \in OrderByDesc(S \ {x}, key)} :
                x \in {y \in S : \A z \in S : key[y] >= key[z]}}

\* LIMIT limit OFFSET offset.
LimitOffset(rows, limit, offset) ==
    SubSeq(rows, offset + 1, IF offset + limit < Len(rows) THEN offset + limit ELSE Len(rows))

\* The handler's thread panics at `(page - 1) * per_page` in a build that checks
\* arithmetic overflow: the request is answered by no handler result.
Panicked == Err("Panic", "attempt to multiply with overflow")
\* The database refuses a negative OFFSET; the sqlx::Error is converted by `?`.
NegativeOffset == StorageError

\* What both listings do with the rows S that the query selects: they bind per_page
\* and offset, and map the rows fetched (item).  An offset beyond the last row skips
\* them all.  (\E over a singleton is `let`: the value is computed once.)
Listing(w, op, auth, params, S, key, item) ==
    \E per_page \in {EffectivePerPage(params)}, offset \in {Offset(params)} :
       \/ /\ OffsetOverflows(params)
          /\ Respond(w, op, auth, params, Panicked)
       \/ IF is_negative(offset)
            THEN Respond(w, op, auth, params, NegativeOffset)
            ELSE \E rows \in OrderByDesc(S, key) :
                   \E skipped \in {IF lt(offset, i64(Len(rows)))
                                     THEN as_rows(offset) ELSE Len(rows)} :
                      LET page == LimitOffset(rows, as_rows(per_page), skipped)
                      IN  RespondRows(w, op, auth, params,
                                      [i \in DOMAIN page |-> item[page[i]]])

(***************************************************************************)
(* get_users and get_user: the listing and one row, for administrators.    *)
(***************************************************************************)
user_to_response(u) ==
    [id |-> u.id, username |-> u.username, email |-> u.email, full_name |-> u.full_name,
     role |-> u.role, is_active |-> u.is_active]

\* ORDER BY created_at DESC: the rows keep no created_at, and ids are given in the
\* order of the INSERTs, so the newest row is the one with the highest id.
GetUsers(w, auth, params) ==
    /\ Accept(w)
    /\ IF require_admin(auth).kind # "Ok"
         THEN Respond(w, "get_users", auth, params, require_admin(auth))
         ELSE LET stored == {u \in DOMAIN users : IsSome(users[u])}
              IN  Listing(w, "get_users", auth, params, stored, [u \in stored |-> u],
                          [u \in stored |-> user_to_response(UserFromRow(users[u][1]))])
    /\ UNCHANGED <<userVars, taskVars, authVars, now>>

GetUser(w, auth, id) ==
    /\ Accept(w)
    /\ IF require_admin(auth).kind # "Ok"
         THEN Respond(w, "get_user", auth, id, require_admin(auth))
       ELSE IF SelectUser(id) = None
         THEN Respond(w, "get_user", auth, id, Err("NotFound", "User not found"))
       ELSE Respond(w, "get_user", auth, id, Ok("Ok"))
    /\ UNCHANGED <<userVars, taskVars, authVars, now>>

(***************************************************************************)
(* get_task and get_employee_stats.  get_task answers by its first SELECT; *)
(* the two lookups of names that follow cannot fail the request.           *)
(***************************************************************************)
GetTask(w, auth, id) ==
    /\ Accept(w)
    /\ IF SelectTask(id) = None
         THEN Respond(w, "get_task", auth, id, Err("NotFound", "Task not found"))
         ELSE Respond(w, "get_task", auth, id, Ok("Ok"))
    /\ UNCHANGED <<userVars, taskVars, config, tokens, now>>

(***************************************************************************)
(* get_tasks: the filtered, ordered listing, one page of it.               *)
(***************************************************************************)
TaskListItem(t) ==
    [id |-> t.id, task_number |-> t.task_number, title |-> t.title,
     status |-> t.status, urgency |-> t.urgency]

\* WHERE ($1::text IS NULL OR status::text = $1) AND ... AND ($4 IS NULL OR assigned_by = $4)
Matches(row, params) ==
    /\ params.status = None \/ row.status = TaskStatus_to_string(params.status[1])
    /\ params.urgency = None \/ row.urgency = TaskUrgency_to_string(params.urgency[1])
    /\ params.tester_id = None \/ row.tester_id = params.tester_id
    /\ params.assigned_by = None \/ row.assigned_by = params.assigned_by[1]

GetTasks(w, auth, params) ==
    /\ Accept(w)
    /\ LET matching == {t \in DOMAIN tasks :
                          IsSome(tasks[t]) /\ Matches(tasks[t][1], params)}
       IN  Listing(w, "get_tasks", auth, params, matching,
                   [t \in matching |-> tasks[t][1].created_at],
                   [t \in matching |-> TaskListItem(FromRow(tasks[t][1]))])
    /\ UNCHANGED <<userVars, taskVars, authVars, now>>

\* The role check of get_employee_stats with Admin left out.
MayViewStats_ManagerOnly(auth) == auth.role = "Manager"

MayViewStats(auth) == ~(auth.role # "Manager" /\ auth.role # "Admin")

\* FROM users u JOIN tasks t ON t.tester_id = u.id WHERE u.role::text != 'admin':
\* the join without the rows of users that no task names.
StatsJoin_Inner ==
    LET kept == {u \in DOMAIN users : IsSome(users[u]) /\ users[u][1].role # "admin"}
        of(u) == {t \in DOMAIN tasks : IsSome(tasks[t]) /\ tasks[t][1].tester_id = Some(u)}
    IN  UNION {{<<u, Some(t)>> : t \in of(u)} : u \in kept}

\* FROM users u LEFT JOIN tasks t ON t.tester_id = u.id WHERE u.role::text != 'admin':
\* a pair for every task of a user that is not an admin, and for a user that no task
\* names one pair whose task columns are NULL.
StatsJoin ==
    LET kept == {u \in DOMAIN users : IsSome(users[u]) /\ users[u][1].role # "admin"}
        of(u) == {t \in DOMAIN tasks : IsSome(tasks[t]) /\ tasks[t][1].tester_id = Some(u)}
    IN  UNION {IF of(u) = {} THEN {<<u, None>>} ELSE {<<u, Some(t)>> : t \in of(u)} :
               u \in kept}

\* GROUP BY u.id, u.full_name with the three counts; COUNT(t.id) leaves out the NULLs.
\* The rows are kept as a set: the order (by full_name) is not modelled.
StatsRows ==
    LET group(u) == {j \in StatsJoin : j[1] = u /\ IsSome(j[2])}
        status(j) == tasks[j[2][1]][1].status
    IN  { [user_id |-> u,
           full_name |-> users[u][1].full_name,
           total_tasks |-> Cardinality(group(u)),
           completed_tasks |->
               Cardinality({j \in group(u) : status(j) \in {"done", "closed"}}),
           in_progress_tasks |->
               Cardinality({j \in group(u) : status(j) = "in_progress"})]
          : u \in {j[1] : j \in StatsJoin} }

GetEmployeeStats(w, auth) ==
    /\ Accept(w)
    /\ IF ~MayViewStats(auth)
         THEN Respond(w, "get_employee_stats", auth, 0,
                      Err("Forbidden", "Only managers and admins can view statistics"))
         ELSE RespondRows(w, "get_employee_stats", auth, 0, StatsRows)
    /\ UNCHANGED <<userVars, taskVars, authVars, now>>

(***************************************************************************)
(* Tokens.  A token is its claims and the key that signed it.              *)
(***************************************************************************)
SecondsPerHour == 3600
\* jsonwebtoken's Validation::default(): exp is validated with a leeway of 60 seconds.
Leeway == 60
DefaultExpirationHours == 24

create_token(user_id, username, role, secret, expiration_hours) ==
    [sub |-> user_id, username |-> username, role |-> UserRole_to_string(role),
     exp |-> now + expiration_hours * SecondsPerHour, iat |-> now, key |-> secret]

\* A verification that looks the account up and refuses a missing or inactive one.
verify_token_ChecksAccount(token, secret) ==
    IF token.key # secret THEN Err("Unauthorized", "Invalid token: InvalidSignature")
    ELSE IF token.exp < now - Leeway THEN Err("Unauthorized", "Invalid token: ExpiredSignature")
    ELSE IF ~(UserExists(token.sub) /\ users[token.sub][1].is_active)
      THEN Err("Unauthorized", "Invalid token: account")
    ELSE Ok("Ok")

\* decode(): the signature, then the expiry as the library's default validation tests it.
verify_token(token, secret) ==
    IF token.key # secret THEN Err("Unauthorized", "Invalid token: InvalidSignature")
    ELSE IF token.exp < now - Leeway THEN Err("Unauthorized", "Invalid token: ExpiredSignature")
    ELSE Ok("Ok")

\* The extractor's match with two arms exchanged.
RoleOfClaim_Swapped(s) ==
    CASE s = "admin" -> Some("Admin")
      [] s = "manager" -> Some("Manager")
      [] s = "tester" -> Some("Developer")
      [] s = "developer" -> Some("Tester")
      [] OTHER -> None

\* The extractor's match on the role claim: the role, or None for any other text.
RoleOfClaim(s) ==
    CASE s = "admin" -> Some("Admin")
      [] s = "manager" -> Some("Manager")
      [] s = "tester" -> Some("Tester")
      [] s = "developer" -> Some("Developer")
      [] OTHER -> None

Rejected(msg) == [result |-> Err("Unauthorized", msg), auth |-> NoAuth]
\* The extractor: an Authorization header (if any) to an AuthUser or a rejection.
from_request_parts(header) ==
    IF header = None THEN Rejected("Missing Authorization header")
    ELSE IF header[1].scheme # "Bearer"
      THEN Rejected("Invalid Authorization header format. Use: Bearer <token>")
    ELSE IF verify_token(header[1].token, config.jwt_secret).kind # "Ok"
      THEN [result |-> verify_token(header[1].token, config.jwt_secret), auth |-> NoAuth]
    ELSE IF RoleOfClaim(header[1].token.role) = None THEN Rejected("Invalid role in token")
    ELSE [result |-> Ok("Ok"),
          auth |-> [user_id |-> header[1].token.sub,
                    username |-> header[1].token.username,
                    role |-> RoleOfClaim(header[1].token.role)[1]]]

(***************************************************************************)
(* login                                                                   *)
(***************************************************************************)
ValidLogin(username, password) == username # "" /\ password # ""

\* The checks of login without the one on is_active.
LoginCheck_IgnoresActive(user, password) ==
    IF user = None \/ ~verify_password(password, user[1].password_hash)
      THEN Err("Unauthorized", "Invalid username or password")
      ELSE Ok("Ok")

\* What login answers for the row found (if any) and the password given, before it
\* makes the token.
LoginCheck(user, password) ==
    IF user = None THEN Err("Unauthorized", "Invalid username or password")
    ELSE IF ~user[1].is_active THEN Err("Unauthorized", "Account is deactivated")
    ELSE IF ~verify_password(password, user[1].password_hash)
      THEN Err("Unauthorized", "Invalid username or password")
    ELSE Ok("Ok")

Login(w, username, password) ==
    /\ Accept(w)
    /\ LET user == SelectByUsername(username)
           creds == <<username, password>>
       IN  IF ~ValidLogin(username, password)
             THEN /\ Respond(w, "login", NoAuth, creds, ValidationError)
                  /\ UNCHANGED tokens /\ bearer' = None
           ELSE IF LoginCheck(user, password).kind # "Ok"
             THEN /\ Respond(w, "login", NoAuth, creds, LoginCheck(user, password))
                  /\ UNCHANGED tokens /\ bearer' = None
           ELSE LET token == create_token(user[1].id, user[1].username, user[1].role,
                                          config.jwt_secret,
                                          config.jwt_expiration_hours)
                IN  /\ tokens' = tokens \cup {token}
                    /\ bearer' = Some(token)
                    /\ Respond(w, "login", NoAuth, creds, Ok("Ok"))
    /\ UNCHANGED <<userVars, taskVars, config, now>>

\* A request for GET /api/auth/me with this Authorization header.
GetMeRequest(w, header) ==
    /\ bearer' = IF IsSome(header) THEN Some(header[1].token) ELSE None
    /\ IF from_request_parts(header).result.kind = "Ok"
         THEN GetMe(w, from_request_parts(header).auth)
         ELSE /\ Accept(w)
              /\ Respond(w, "get_me", NoAuth, 0, from_request_parts(header).result)
              /\ UNCHANGED <<userVars, taskVars, config, tokens, now>>

\* A request for GET /api/tasks/{id} with this Authorization header.
GetTaskRequest(w, header, id) ==
    /\ bearer' = IF IsSome(header) THEN Some(header[1].token) ELSE None
    /\ IF from_request_parts(header).result.kind = "Ok"
         THEN GetTask(w, from_request_parts(header).auth, id)
         ELSE /\ Accept(w)
              /\ Respond(w, "get_task", NoAuth, id, from_request_parts(header).result)
              /\ UNCHANGED <<userVars, taskVars, config, tokens, now>>

\* The clock reaches the instant t.
Advance(t) ==
    /\ t > now
    /\ now' = t
    /\ UNCHANGED <<userVars, taskVars, authVars, req, served, last>>

(***************************************************************************)
(* Accounts and sessions: the inputs of the user handlers and of login,    *)
(* the headers of authenticated requests, and the clock.                   *)
(***************************************************************************)
Bob ==
    [username |-> "bob", email |-> "bob@testflow.local", password |-> "secret123",
     full_name |-> "Bob", role |-> "Tester"]
CreateUserBodies ==
    { Bob, [Bob EXCEPT !.role = "Admin"], [Bob EXCEPT !.username = "admin"],
      [Bob EXCEPT !.email = "admin@testflow.local"], [Bob EXCEPT !.username = "ab"] }

\* The query string of a listing that names neither page nor per_page.
NoPaging == [page |-> None, per_page |-> None]

NoUserUpdate ==
    [username |-> None, email |-> None, password |-> None, full_name |-> None,
     role |-> None, is_active |-> None]
UpdateUserBodies ==
    { NoUserUpdate, [NoUserUpdate EXCEPT !.is_active = Some(FALSE)],
      [NoUserUpdate EXCEPT !.role = Some("Manager")],
      [NoUserUpdate EXCEPT !.password = Some("secret123")],
      [NoUserUpdate EXCEPT !.username = Some("bob")],
      [NoUserUpdate EXCEPT !.username = Some("ab")] }

Usernames == {"admin", "bob", ""}
Passwords == {"admin123", "secret123", ""}

\* Tokens nobody issued: an issued token re-signed with another key, and claims of
\* an administrator signed with another key.
Forged ==
    {[t EXCEPT !.key = "forged"] : t \in tokens}
      \cup {[sub |-> 1, username |-> "admin", role |-> "admin",
             exp |-> now + SecondsPerHour, iat |-> now, key |-> "forged"]}
Headers ==
    {None} \cup {Some([scheme |-> "Bearer", token |-> t]) : t \in tokens \cup Forged}
           \cup {Some([scheme |-> "Basic", token |-> t]) : t \in tokens}

\* The instants at which the answer to an issued token can change.
Instants == UNION {{t.exp, t.exp + Leeway, t.exp + Leeway + 1} : t \in tokens}

ExpirationHours == {0, DefaultExpirationHours}

\* The ids a request names: those ever given to a row, and one that never was.
TargetIds == {id \in UserIds : id <= user_seq + 1}

InitAuth ==
    /\ users = [u \in UserIds |-> IF u = 1 THEN Some(SeedAdmin) ELSE None]
    /\ user_seq = 1
    /\ bearer = None
    /\ tasks = [t \in TaskIds |-> None]
    /\ task_seq = 0
    /\ now = Leeway
    /\ config \in [jwt_secret : {"secret"}, jwt_expiration_hours : ExpirationHours]
    /\ tokens = {}
    /\ req = [w \in Workers |-> IdleReq]
    /\ served = 0
    /\ last = NoResponse
    /\ ever_closed = {}

\* The user handlers, and the statistics over users, called by every kind of caller.
NextUsers ==
    \/ \E w \in Workers, auth \in Sessions, p \in CreateUserBodies : CreateUserBegin(w, auth, p)
    \/ \E w \in Workers : CreateUserInsert(w)
    \/ \E w \in Workers, auth \in Sessions, id \in TargetIds, p \in UpdateUserBodies :
          UpdateUserBegin(w, auth, id, p)
    \/ \E w \in Workers : UpdateUserWrite(w)
    \/ \E w \in Workers, auth \in Sessions, id \in TargetIds : DeleteUser(w, auth, id)
    \/ \E w \in Workers, auth \in Sessions : GetUsers(w, auth, NoPaging)
    \/ \E w \in Workers, auth \in Sessions, id \in TargetIds : GetUser(w, auth, id)
    \/ \E w \in Workers, auth \in Sessions : GetEmployeeStats(w, auth)

SpecUsers == Init /\ [][NextUsers]_vars

\* The callers that may change accounts: the seeded administrator, and a second one.
Admins ==
    { [user_id |-> 1, username |-> "admin", role |-> "Admin"],
      [user_id |-> 2, username |-> "bob", role |-> "Admin"] }
\* What they do to an account: deactivate it, reactivate it, change its role.
AccountChanges ==
    { [NoUserUpdate EXCEPT !.is_active = Some(FALSE)],
      [NoUserUpdate EXCEPT !.is_active = Some(TRUE)],
      [NoUserUpdate EXCEPT !.role = Some("Manager")] }
\* The caller that creates a task to be read.
Author == [user_id |-> 2, username |-> "bob", role |-> "Developer"]

\* Sessions: logins, requests that carry a token, the clock, and accounts and tasks
\* that come and go meanwhile.
NextAuth ==
    \/ \E t \in Instants : Advance(t)
    \/ \E w \in Workers, username \in Usernames, password \in Passwords :
          Login(w, username, password)
    \/ \E w \in Workers, header \in Headers : GetMeRequest(w, header)
    \/ \E w \in Workers, header \in Headers, id \in TaskIds : GetTaskRequest(w, header, id)
    \/ \E w \in Workers : CreateTask(w, Author, CHOOSE p \in CreateBodies : ValidCreate(p))
    \/ \E w \in Workers : CreateUserBegin(w, CHOOSE a \in Admins : a.user_id = 1, Bob)
    \/ \E w \in Workers : CreateUserInsert(w)
    \/ \E w \in Workers, auth \in Admins, id \in TargetIds, p \in AccountChanges :
          UpdateUserBegin(w, auth, id, p)
    \/ \E w \in Workers : UpdateUserWrite(w)
    \/ \E w \in Workers, auth \in Admins, id \in TargetIds : DeleteUser(w, auth, id)

SpecAuth == InitAuth /\ [][NextAuth]_vars

(***************************************************************************)
(* Properties of the task handlers.  A step that admits or answers a       *)
(* request shows in `last`; a step that ends a request in flight shows in  *)
(* `req`.                                                                  *)
(***************************************************************************)
Row(id) == tasks[id][1]
Exists(id) == id \in TaskIds /\ IsSome(tasks[id])

\* This step is the first step of a handler of `op`, called by last'.auth on last'.id.
Begins(op) == served' = served + 1 /\ last'.op = op
\* This step is the UPDATE of worker w's update_task, on a row that is there.
UpdateApplies(w) ==
    req[w].pc = "update_write" /\ req'[w].pc = "idle" /\ Exists(req[w].id)
ResultingStatus(w) == new_status(req[w].payload, req[w].existing)

\* C1: an update_task whose resulting status is Done or Closed, applied to a task whose
\* closed_at is already set, leaves closed_at as it was (closing twice keeps the first
\* timestamp).
C1_ReclosingKeepsClosedAt ==
    [][\A w \in Workers :
          (UpdateApplies(w) /\ IsClosing(ResultingStatus(w))
              /\ IsSome(Row(req[w].id).closed_at))
          => tasks'[req[w].id][1].closed_at = Row(req[w].id).closed_at]_vars

\* The policy C2 states, spelled out on the caller and the stored creator.
C2_Denied(auth, id) ==
    auth.role = "Admin" \/ (Row(id).assigned_by # auth.user_id /\ auth.role # "Manager")

\* C2: on an existing task, delete_task answers Forbidden and leaves the task stored
\* when the caller is an Admin, or is neither the creator nor a Manager; for the creator
\* (not an Admin) and for any Manager it goes on to its DELETE, which removes the task
\* and answers 204.
C2_DeleteTaskAuthorization ==
    [][/\ (Begins("delete_task") /\ Exists(last'.id)) =>
            IF C2_Denied(last'.auth, last'.id)
            THEN /\ last'.result.kind = "Forbidden"
                 /\ tasks' = tasks
                 /\ req' = req
            ELSE /\ last'.result = Pending
                 /\ \E w \in Workers :
                       /\ req[w].pc = "idle"
                       /\ req'[w].pc = "delete_exec"
                       /\ req'[w].id = last'.id
       /\ \A w \in Workers :
            (req[w].pc = "delete_exec" /\ req'[w].pc = "idle") =>
                /\ tasks'[req[w].id] = None
                /\ last'.op = "delete_task"
                /\ last'.id = req[w].id
                /\ last'.result.kind = "NoContent"]_vars

\* A delete_task has answered 204 and the task it named, once inserted, is gone.
C2_Witness ==
    /\ last.op = "delete_task"
    /\ last.result.kind = "NoContent"
    /\ last.id \in TaskIds
    /\ tasks[last.id] = None
    /\ task_seq >= last.id

\* C7: create_task and update_task answer Forbidden and leave the table as it is for an
\* Admin caller; for a Manager, Tester or Developer they go through, whoever created
\* the task: a valid create inserts the row, an update of a stored task is refused only
\* for an invalid body and otherwise reaches its UPDATE, which answers 200.
C7_TaskAuthorship ==
    [][/\ Begins("create_task") =>
            IF last'.auth.role = "Admin"
            THEN last'.result.kind = "Forbidden" /\ tasks' = tasks /\ req' = req
            ELSE /\ last'.result.kind \in {"Created", "BadRequest"}
                 /\ last'.result.kind = "Created" =>
                       /\ ~Exists(last'.id)
                       /\ IsSome(tasks'[last'.id])
                       /\ tasks'[last'.id][1].assigned_by = last'.auth.user_id
       /\ Begins("update_task") =>
            IF last'.auth.role = "Admin"
            THEN last'.result.kind = "Forbidden" /\ tasks' = tasks /\ req' = req
            ELSE /\ last'.result.kind \in {"pending", "BadRequest", "NotFound"}
                 /\ last'.result.kind = "NotFound" => ~Exists(last'.id)
                 /\ last'.result.kind = "pending" =>
                       \E w \in Workers :
                          /\ req[w].pc = "idle"
                          /\ req'[w].pc = "update_write"
                          /\ req'[w].id = last'.id
       /\ \A w \in Workers :
            UpdateApplies(w) => last'.op = "update_task" /\ last'.result.kind = "Ok"]_vars

\* An update_task by a non-admin caller is under way on a task that another user
\* created: the row of that task is about to be written.
C7_Witness ==
    /\ last.op = "update_task"
    /\ last.result = Pending
    /\ last.auth.role \in {"Manager", "Tester", "Developer"}
    /\ Exists(last.id)
    /\ Row(last.id).assigned_by # last.auth.user_id
    /\ \E w \in Workers : req[w].pc = "update_write" /\ req[w].id = last.id

\* C8: in every reachable state a stored task whose status is done or closed has a
\* closed_at, and a stored task no update ever gave status done or closed has none.
C8_ClosedAtInvariant ==
    \A id \in TaskIds :
        Exists(id) =>
            /\ Row(id).status \in {"done", "closed"} => IsSome(Row(id).closed_at)
            /\ id \notin ever_closed => Row(id).closed_at = None

\* Two updates of one task overlap: one has closed the task while the other, which read
\* the task before that, still awaits its UPDATE.
C8_Witness ==
    \E id \in TaskIds, w \in Workers :
        /\ Exists(id)
        /\ Row(id).status \in {"done", "closed"}
        /\ IsSome(Row(id).closed_at)
        /\ req[w].pc = "update_write"
        /\ req[w].id = id
        /\ req[w].existing.closed_at = None

\* C9: an update_task whose resulting status is New, InProgress or Testing leaves
\* closed_at as it was; reopening a done or closed task does not clear its closed_at.
C9_OpenStatusKeepsClosedAt ==
    [][\A w \in Workers :
          (UpdateApplies(w) /\ ~IsClosing(ResultingStatus(w)))
          => tasks'[req[w].id][1].closed_at = Row(req[w].id).closed_at]_vars

\* C10: after a successful update_task each field the request carries holds the
\* requested value, and each field the request omits holds the value it held before.
C10_FieldFrame ==
    [][\A w \in Workers :
          UpdateApplies(w) =>
            LET p == req[w].payload
                before == Row(req[w].id)
                after == tasks'[req[w].id][1]
            IN  /\ after.title = IF IsSome(p.title) THEN p.title[1] ELSE before.title
                /\ after.description =
                      IF IsSome(p.description) THEN p.description ELSE before.description
                /\ after.tester_id =
                      IF IsSome(p.tester_id) THEN p.tester_id ELSE before.tester_id
                /\ after.status =
                      IF IsSome(p.status) THEN TaskStatus_to_string(p.status[1])
                      ELSE before.status
                /\ after.urgency =
                      IF IsSome(p.urgency) THEN TaskUrgency_to_string(p.urgency[1])
                      ELSE before.urgency
                /\ after.acceptance_criteria =
                      IF IsSome(p.acceptance_criteria) THEN p.acceptance_criteria
                      ELSE before.acceptance_criteria
                /\ after.evaluation_criteria =
                      IF IsSome(p.evaluation_criteria) THEN p.evaluation_criteria
                      ELSE before.evaluation_criteria
                /\ after.comment = IF IsSome(p.comment) THEN p.comment ELSE before.comment]_vars

\* The fields of a task an update_task request may carry.
UpdateFields ==
    {"title", "description", "tester_id", "status", "urgency", "acceptance_criteria",
     "evaluation_criteria", "comment"}

\* C11: update_task takes effect as one atomic operation: a request never writes over
\* what another request committed after it read the row. When the stored row is no
\* longer the one the request read, every field the request omits keeps the value
\* stored now, and closed_at stays unless the request's own status sets it.
C11_NoStaleOverwrite ==
    [][\A w \in Workers :
          (UpdateApplies(w) /\ FromRow(Row(req[w].id)) # req[w].existing) =>
             /\ \A f \in UpdateFields :
                   req[w].payload[f] = None => tasks'[req[w].id][1][f] = Row(req[w].id)[f]
             /\ req[w].payload.status = None
                   => tasks'[req[w].id][1].closed_at = Row(req[w].id).closed_at]_vars

\* C12: a created task has the caller's id as assigned_by (with its serial number and
\* the time of creation), and no step changes assigned_by, task_number or created_at
\* of a task that stays in the store.
C12_CreatorIsImmutable ==
    [][/\ (Begins("create_task") /\ last'.result.kind = "Created")
            => /\ tasks'[last'.id][1].assigned_by = last'.auth.user_id
               /\ tasks'[last'.id][1].task_number = task_seq + 1
               /\ tasks'[last'.id][1].created_at = now
       /\ \A id \in TaskIds :
            (Exists(id) /\ IsSome(tasks'[id]))
               => /\ tasks'[id][1].assigned_by = Row(id).assigned_by
                  /\ tasks'[id][1].task_number = Row(id).task_number
                  /\ tasks'[id][1].created_at = Row(id).created_at]_vars

\* A task created at time 0 by user 1 was rewritten in every field after the clock
\* moved on, and closed by a later update.
C12_Witness ==
    \E id \in TaskIds :
        /\ Exists(id)
        /\ Row(id).title = "t2" /\ Row(id).tester_id = Some(2)
        /\ Row(id).assigned_by = 1 /\ Row(id).created_at = 0
        /\ IsSome(Row(id).closed_at)
        /\ now > 0


C4_ExpiredTokenRejected ==
    [][(/\ Begins("get_me")
        /\ IsSome(bearer')
        /\ (now >= bearer'[1].exp \/ bearer'[1].key # config.jwt_secret))
          => last'.result.kind = "Unauthorized"]_vars

\* Some stored account has this username, is active and has this password.
C5_Authentic(username, password) ==
    \E id \in UserIds :
        /\ IsSome(users[id])
        /\ users[id][1].username = username
        /\ users[id][1].is_active
        /\ users[id][1].password_hash = <<"argon2", password>>

\* C5 (as stated): login returns a token exactly when the account exists, is active
\* and the password matches; in every other case it is answered Unauthorized.
C5_LoginOrUnauthorized ==
    [][Begins("login")
          => IF C5_Authentic(last'.id[1], last'.id[2])
               THEN last'.result.kind = "Ok" /\ IsSome(bearer')
               ELSE last'.result.kind = "Unauthorized" /\ bearer' = None]_vars

\* C5 (amended): login returns a token, signed with the configured secret and naming
\* the account, exactly when the account exists, is active and the password matches;
\* otherwise it returns none: an empty username or password is answered BadRequest by
\* the validation of the request, every other case Unauthorized.
C5_LoginIssuesToken ==
    [][Begins("login")
          => IF C5_Authentic(last'.id[1], last'.id[2])
               THEN /\ last'.result.kind = "Ok"
                    /\ IsSome(bearer')
                    /\ bearer'[1] \in tokens'
                    /\ bearer'[1].key = config.jwt_secret
                    /\ UserExists(bearer'[1].sub)
                    /\ users[bearer'[1].sub][1].username = last'.id[1]
                    /\ users[bearer'[1].sub][1].role = bearer'[1].role
               ELSE /\ bearer' = None
                    /\ tokens' = tokens
                    /\ last'.result.kind =
                         IF last'.id[1] = "" \/ last'.id[2] = "" THEN "BadRequest"
                         ELSE "Unauthorized"]_vars

\* An account created after start-up logged in and got its token.
C5_Witness ==
    /\ last.op = "login"
    /\ last.result.kind = "Ok"
    /\ IsSome(bearer)
    /\ bearer[1] \in tokens
    /\ bearer[1].sub # SeedAdmin.id

\* C6: a login to a stored account that is inactive, whatever the password, or whose
\* password does not match is answered one and the same error: Unauthorized with the
\* message of a wrong password, so an inactive account cannot be told from a mismatch.
C6_InactiveLikeWrongPassword ==
    [][(/\ Begins("login")
        /\ \E id \in UserIds :
              /\ IsSome(users[id])
              /\ users[id][1].username = last'.id[1]
              /\ (~users[id][1].is_active
                    \/ users[id][1].password_hash # <<"argon2", last'.id[2]>>)
        /\ last'.id[1] # "" /\ last'.id[2] # "")
          => last'.result = Err("Unauthorized", "Invalid username or password")]_vars

C14_Taken(username, email) ==
    \E u \in UserIds :
        /\ IsSome(users[u])
        /\ (users[u][1].username = username \/ users[u][1].email = email)

\* C14: a create_user whose username or email is taken is answered Conflict and
\* inserts nothing: it is never admitted to its INSERT while the name is taken, and an
\* INSERT that finds the name taken by a concurrent request is answered Conflict too.
C14_DuplicateIsConflict ==
    [][\A w \in Workers :
          /\ (req[w].pc = "idle" /\ req'[w].pc = "create_user_insert")
                => ~C14_Taken(req'[w].payload.username, req'[w].payload.email)
          /\ (/\ req[w].pc = "create_user_insert" /\ req'[w].pc = "idle"
              /\ C14_Taken(req[w].payload.username, req[w].payload.email))
                => last'.result.kind = "Conflict" /\ users' = users]_vars

\* The Authorization header that carries token t.
Bearer(t) == Some([scheme |-> "Bearer", token |-> t])

\* C15: an issued token presented before its expiry is accepted whatever became of
\* the account since (deactivated or not): the request runs as the user id, username
\* and role the token was issued with and is not answered Unauthorized; and a login
\* to an account that is inactive fails (Unauthorized, or BadRequest for an empty
\* password) and returns no token.
C15_TokenOutlivesDeactivation ==
    [][/\ \A w \in Workers, t \in tokens :
            (now < t.exp /\ GetMeRequest(w, Bearer(t)))
               => /\ last'.result.kind # "Unauthorized"
                  /\ last'.auth.user_id = t.sub
                  /\ last'.auth.username = t.username
                  /\ UserRole_to_string(last'.auth.role) = t.role
       /\ (/\ Begins("login")
           /\ \E u \in UserIds : /\ IsSome(users[u])
                                 /\ users[u][1].username = last'.id[1]
                                 /\ ~users[u][1].is_active)
             => last'.result.kind \in {"Unauthorized", "BadRequest"} /\ bearer' = None]_vars

\* The account of an unexpired token was deactivated after the token was issued, and
\* a request with that token has just been served as that user.
C15_Witness ==
    /\ last.op = "get_me"
    /\ last.result.kind = "Ok"
    /\ IsSome(bearer) /\ bearer[1] \in tokens /\ now < bearer[1].exp
    /\ last.auth.user_id = bearer[1].sub
    /\ UserExists(bearer[1].sub)
    /\ ~users[bearer[1].sub][1].is_active

\* C16: the token a successful login returns verifies, at once, to the id, the
\* username and the role of the stored user that logged in; encoding a role for the
\* token and decoding it in the extractor gives the role back, for each of the four.
C16_TokenRoundTrip ==
    [][(Begins("login") /\ last'.result.kind = "Ok")
          => /\ IsSome(bearer')
             /\ from_request_parts(Bearer(bearer'[1])).result.kind = "Ok"
             /\ \E u \in UserIds :
                   /\ IsSome(users[u])
                   /\ users[u][1].username = last'.id[1]
                   /\ from_request_parts(Bearer(bearer'[1])).auth =
                         [user_id |-> users[u][1].id, username |-> users[u][1].username,
                          role |-> UserFromRow(users[u][1]).role]
             /\ \A r \in UserRole : RoleOfClaim(UserRole_to_string(r)) = Some(r)]_vars

\* A user whose role was changed to Manager after creation has logged in and holds a
\* token with that role.
C16_Witness ==
    /\ last.op = "login"
    /\ last.result.kind = "Ok"
    /\ IsSome(bearer)
    /\ bearer[1].role = "manager"
    /\ from_request_parts(Bearer(bearer[1])).auth.role = "Manager"

\* C17: a request with an issued token presented before its expiry reads the
\* caller's own profile whenever the account's row still exists, whether or not the
\* account was deactivated or its role changed since the token was issued (once the
\* row is deleted the answer is NotFound "User not found"); and it reads any
\* existing task by id, whatever the role in the token and whatever became of the
\* account.
C17_ReadsOwnProfileAndTasks ==
    [][\A w \in Workers, t \in tokens :
          /\ (now < t.exp /\ GetMeRequest(w, Bearer(t)))
                => last'.result = IF UserExists(t.sub) THEN Ok("Ok")
                                   ELSE Err("NotFound", "User not found")
          /\ \A id \in TaskIds :
                (now < t.exp /\ Exists(id) /\ GetTaskRequest(w, Bearer(t), id))
                   => last'.result = Ok("Ok")]_vars

\* The holder of an unexpired token has just read their own profile although the
\* role stored for the account is no longer the one the token was issued with.
C17_Witness ==
    /\ last.op = "get_me"
    /\ last.result = Ok("Ok")
    /\ IsSome(bearer) /\ bearer[1] \in tokens /\ now < bearer[1].exp
    /\ UserExists(bearer[1].sub)
    /\ users[bearer[1].sub][1].role # bearer[1].role

\* C17 as stated: a request with an issued token presented before its expiry always
\* reads the caller's own profile and any existing task, whatever was done to
\* accounts since the token was issued.
C17_AlwaysReadsOwnProfile ==
    [][\A w \in Workers, t \in tokens :
          /\ (now < t.exp /\ GetMeRequest(w, Bearer(t))) => last'.result = Ok("Ok")
          /\ \A id \in TaskIds :
                (now < t.exp /\ Exists(id) /\ GetTaskRequest(w, Bearer(t), id))
                   => last'.result = Ok("Ok")]_vars

\* C18: an update_task request whose body carries tester_id as null clears the
\* task's tester (the row it writes has no tester), and one whose body has no
\* tester_id member writes the tester it has read.
C18_ExplicitNoneClears ==
    [][\A w \in Workers, auth \in Sessions, id \in TaskIds, body \in UpdateJson :
          (/\ UpdateTaskBegin(w, auth, id, UpdateTaskRequest_deserialize(body))
           /\ req'[w].pc = "update_write")
             => LET written == UpdatedRow(Row(id), req'[w].payload, req'[w].existing,
                                          req'[w].closed_at).tester_id
                IN  /\ body.tester_id = JsonNull => written = None
                    /\ body.tester_id = JsonAbsent => written = Row(id).tester_id]_vars

\* The operations of user management.
UserOps == {"get_users", "get_user", "create_user", "update_user", "delete_user"}

\* C19: get_users, get_user, create_user, update_user and delete_user called by a
\* caller whose role is not Admin are answered Forbidden at once, change no account
\* and leave no write pending; called by an Admin they are never answered Forbidden,
\* and get_users is answered Ok.
C19_OnlyAdminsManageUsers ==
    [][\A op \in UserOps :
          Begins(op)
            => IF last'.auth.role # "Admin"
                 THEN /\ last'.result = Err("Forbidden", "Only administrators can manage users")
                      /\ users' = users /\ user_seq' = user_seq
                      /\ req' = req
                 ELSE /\ last'.result.kind # "Forbidden"
                      /\ op = "get_users" => last'.result = Ok("Ok")]_vars

\* A Manager asked to delete the account of another user, which is there, and was
\* answered Forbidden.
C19_Witness ==
    /\ last.op = "delete_user"
    /\ last.auth.role = "Manager"
    /\ last.id # last.auth.user_id
    /\ UserExists(last.id)
    /\ last.result.kind = "Forbidden"

CreateBodiesAll ==
    CreateBodies \cup
      {[(CHOOSE p \in CreateBodies : ValidCreate(p)) EXCEPT !.urgency = Some(u)] :
          u \in {"Low", "Critical"}}
\* update_task bodies: one that is valid and one that is not.
UpdateBodiesAll == {NoUpdate, [NoUpdate EXCEPT !.title = Some("")]}
\* create_user bodies: valid, invalid, and with an email that is taken.
CreateUserBodiesAll ==
    {Bob, [Bob EXCEPT !.username = "ab"], [Bob EXCEPT !.email = "admin@testflow.local"]}
\* update_user bodies: one that is valid and one that is not.
UpdateUserBodiesAll ==
    {[NoUserUpdate EXCEPT !.is_active = Some(FALSE)], [NoUserUpdate EXCEPT !.username = Some("ab")]}

NextAll ==
    \/ \E w \in Workers, auth \in Sessions, p \in CreateBodiesAll : CreateTask(w, auth, p)
    \/ \E w \in Workers, auth \in Sessions, id \in TaskIds, p \in UpdateBodiesAll :
          UpdateTaskBegin(w, auth, id, p)
    \/ \E w \in Workers : UpdateTaskWrite(w)
    \/ \E w \in Workers, auth \in Sessions, id \in TaskIds : DeleteTaskBegin(w, auth, id)
    \/ \E w \in Workers : DeleteTaskExec(w)
    \/ \E w \in Workers, auth \in Sessions, p \in CreateUserBodiesAll :
          CreateUserBegin(w, auth, p)
    \/ \E w \in Workers : CreateUserInsert(w)
    \/ \E w \in Workers, auth \in Sessions, id \in TargetIds, p \in UpdateUserBodiesAll :
          UpdateUserBegin(w, auth, id, p)
    \/ \E w \in Workers : UpdateUserWrite(w)
    \/ \E w \in Workers, auth \in Sessions, id \in TargetIds : DeleteUser(w, auth, id)
    \/ \E w \in Workers, auth \in Sessions, id \in TargetIds : GetUser(w, auth, id)
    \/ \E w \in Workers, auth \in Sessions : GetEmployeeStats(w, auth)
    \/ \E w \in Workers, password \in {"admin123", "secret123"} : Login(w, "admin", password)
    \/ \E w \in Workers, header \in Headers, id \in TaskIds : GetTaskRequest(w, header, id)

SpecAll == Init /\ [][NextAll]_vars

(***************************************************************************)
(* Reads over a store that earlier requests have filled.                   *)
(***************************************************************************)
\* The account create_user has stored under id u for a user of this role.
Member(u, role) ==
    InsertedUser(u, [username |-> "user" \o ToString(u),
                     email |-> "user" \o ToString(u) \o "@testflow.local",
                     password |-> "secret123", full_name |-> "User " \o ToString(u),
                     role |-> role])

\* A task as create_task and update_task have left it.
StoredTask(id, tester_id, status, created_at) ==
    [id |-> id, task_number |-> id, title |-> "t1", description |-> None,
     assigned_by |-> 2, tester_id |-> tester_id, status |-> status,
     urgency |-> "medium", created_at |-> created_at,
     closed_at |-> IF status \in {"done", "closed"} THEN Some(created_at) ELSE None,
     acceptance_criteria |-> None, evaluation_criteria |-> None, comment |-> None]

\* One more task than the task handlers' specification creates: a listing is about
\* several tasks.
ListedIds == 1..(MaxTasks + 1)

\* What the row of a stored task can be: no task, or one of a few that differ in
\* tester, status and time of creation.
TaskSamples(id) ==
    { None,
      Some(StoredTask(id, None, "new", 0)),
      Some(StoredTask(id, Some(2), "in_progress", 0)),
      Some(StoredTask(id, Some(2), "done", 1)),
      Some(StoredTask(id, Some(2), "closed", 0)),
      Some(StoredTask(id, Some(3), "testing", 1)) }

\* What the row of user u can be: the seeded administrator for 1, and then no
\* account, a Tester, or (for 2) another administrator.
UserSamples(u) ==
    IF u = 1 THEN {Some(SeedAdmin)}
    ELSE IF u = 2 THEN {None, Some(Member(u, "Tester")), Some(Member(u, "Admin"))}
    ELSE {None, Some(Member(u, "Tester"))}

InitStore ==
    /\ users \in {f \in [UserIds -> UNION {UserSamples(u) : u \in UserIds}] :
                    \A u \in UserIds : f[u] \in UserSamples(u)}
    /\ user_seq = MaxUsers
    /\ tasks \in {f \in [ListedIds -> UNION {TaskSamples(t) : t \in ListedIds}] :
                    \A t \in ListedIds : f[t] \in TaskSamples(t)}
    /\ task_seq = MaxTasks + 1
    /\ ever_closed = {t \in ListedIds : IsSome(tasks[t]) /\ IsSome(tasks[t][1].closed_at)}
    /\ now = 1
    /\ config = [jwt_secret |-> "secret", jwt_expiration_hours |-> DefaultExpirationHours]
    /\ tokens = {}
    /\ bearer = None
    /\ req = [w \in Workers |-> IdleReq]
    /\ served = 0
    /\ last = NoResponse

NextReads ==
    \/ \E w \in Workers, auth \in Sessions : GetEmployeeStats(w, auth)

SpecReads == InitStore /\ [][NextReads]_vars

(***************************************************************************)
(* Listings, page by page, over such a store.                              *)
(***************************************************************************)
\* The query strings of the listings: page and per_page left out, below, within and
\* above their ranges.
Pagings ==
    { NoPaging,
      [page |-> Some(i64(0)), per_page |-> Some(i64(0))],
      [page |-> None, per_page |-> Some(i64(1))],
      [page |-> Some(i64(2)), per_page |-> Some(i64(1))],
      [page |-> Some(i64(2)), per_page |-> None],
      [page |-> None, per_page |-> Some(i64(500))] }
NoFilter == [status |-> None, urgency |-> None, tester_id |-> None, assigned_by |-> None]
Filters == {NoFilter, [NoFilter EXCEPT !.status = Some("Done")]}
TaskQueries ==
    {[page |-> g.page, per_page |-> g.per_page, status |-> f.status, urgency |-> f.urgency,
      tester_id |-> f.tester_id, assigned_by |-> f.assigned_by] : g \in Pagings, f \in Filters}

\* Every account is there; the tasks are as in InitStore.
InitLists ==
    /\ users = [u \in UserIds |-> IF u = 1 THEN Some(SeedAdmin) ELSE Some(Member(u, "Tester"))]
    /\ user_seq = MaxUsers
    /\ tasks \in {f \in [ListedIds -> UNION {TaskSamples(t) : t \in ListedIds}] :
                    \A t \in ListedIds : f[t] \in TaskSamples(t)}
    /\ task_seq = MaxTasks + 1
    /\ ever_closed = {t \in ListedIds : IsSome(tasks[t]) /\ IsSome(tasks[t][1].closed_at)}
    /\ now = 1
    /\ config = [jwt_secret |-> "secret", jwt_expiration_hours |-> DefaultExpirationHours]
    /\ tokens = {}
    /\ bearer = None
    /\ req = [w \in Workers |-> IdleReq]
    /\ served = 0
    /\ last = NoResponse

NextLists ==
    \/ \E w \in Workers, params \in TaskQueries : GetTasks(w, Author, params)
    \/ \E w \in Workers, auth \in {Author} \cup {a \in Admins : a.user_id = 1},
            params \in Pagings : GetUsers(w, auth, params)

SpecLists == InitLists /\ [][NextLists]_vars

\* The tasks stored with user u as their tester.
TestedBy(u) == {t \in DOMAIN tasks : IsSome(tasks[t]) /\ tasks[t][1].tester_id = Some(u)}

\* C21: a successful get_employee_stats returns exactly one row for every stored user
\* whose role is not Admin, also for one that tests no task, and no other row; the
\* row's total is the number of tasks whose tester is that user, completed the number
\* of those that are Done or Closed, in_progress the number that are InProgress, and
\* completed + in_progress <= total.
C21_StatsPerNonAdmin ==
    [][(Begins("get_employee_stats") /\ last'.result.kind = "Ok")
         => /\ \A r \in last'.body :
                  /\ r.user_id \in UserIds /\ IsSome(users[r.user_id])
                  /\ UserFromRow(users[r.user_id][1]).role # "Admin"
            /\ \A u \in UserIds :
                  (IsSome(users[u]) /\ UserFromRow(users[u][1]).role # "Admin")
                    => /\ Cardinality({r \in last'.body : r.user_id = u}) = 1
                       /\ \E r \in last'.body :
                            /\ r.user_id = u
                            /\ r.total_tasks = Cardinality(TestedBy(u))
                            /\ r.completed_tasks =
                                 Cardinality({t \in TestedBy(u) :
                                    FromRow(tasks[t][1]).status \in {"Done", "Closed"}})
                            /\ r.in_progress_tasks =
                                 Cardinality({t \in TestedBy(u) :
                                    FromRow(tasks[t][1]).status = "InProgress"})
                            /\ r.completed_tasks + r.in_progress_tasks <= r.total_tasks]_vars

\* The statistics just returned have a row of two tasks, one of them completed and
\* one in progress, and a row of a user that tests nothing, while an administrator
\* is stored as well.
C21_Witness ==
    /\ last.op = "get_employee_stats"
    /\ last.result.kind = "Ok"
    /\ \E r \in last.body :
          r.total_tasks = 2 /\ r.completed_tasks = 1 /\ r.in_progress_tasks = 1
    /\ \E r \in last.body : r.total_tasks = 0

\* The number of rows page `page` of pages of `size` rows holds out of `total` rows.
PageLength(total, page, size) ==
    LET before == wrapping_sub(page, i64(1))
        rest == IF lt(before, i64(total)) THEN total - as_rows(before) * as_rows(size) ELSE 0
    IN  IF rest <= 0 THEN 0
        ELSE IF rest < as_rows(size) THEN rest ELSE as_rows(size)

\* C22: the page size get_tasks and get_users use lies in 1..100: it is 20 when
\* per_page is left out, 1 when per_page <= 0, 100 when per_page > 100 and the
\* requested value otherwise; the page number used is at least 1; and, when the
\* offset is within the range of i64, the listing returns as many rows as a page of
\* that size holds of the rows there are.
C22_PageSizeClamped ==
    [][((Begins("get_tasks") \/ Begins("get_users")) /\ last'.result.kind = "Ok")
         => \A params \in {last'.id} :
            \A page \in {EffectivePage(params)}, size \in {EffectivePerPage(params)} :
              LET total == IF last'.op = "get_users"
                             THEN Cardinality({u \in UserIds : IsSome(users[u])})
                             ELSE Cardinality({t \in DOMAIN tasks :
                                     IsSome(tasks[t]) /\ Matches(tasks[t][1], params)})
              IN  /\ ~lt(size, i64(1)) /\ ~lt(i64(100), size)
                  /\ params.per_page = None => size = i64(20)
                  /\ (IsSome(params.per_page) /\ ~lt(i64(0), params.per_page[1]))
                        => size = i64(1)
                  /\ (IsSome(params.per_page) /\ lt(i64(100), params.per_page[1]))
                        => size = i64(100)
                  /\ (/\ IsSome(params.per_page)
                      /\ lt(i64(0), params.per_page[1])
                      /\ ~lt(i64(100), params.per_page[1]))
                        => size = params.per_page[1]
                  /\ ~lt(page, i64(1))
                  /\ ~OffsetOverflows(params)
                        => Len(last'.body) = PageLength(total, page, size)]_vars

\* A listing asked for with page 0 and per_page 0 has returned the first one of the
\* two tasks stored.
C22_Witness ==
    /\ last.op = "get_tasks"
    /\ last.id.per_page = Some(i64(0)) /\ last.id.page = Some(i64(0))
    /\ last.id.status = None
    /\ Cardinality({t \in DOMAIN tasks : IsSome(tasks[t])}) = 2
    /\ Len(last.body) = 1

\* The filters of a get_tasks query.
FiltersOf(params) ==
    [status |-> params.status, urgency |-> params.urgency, tester_id |-> params.tester_id,
     assigned_by |-> params.assigned_by]

\* C23: over a store that has not changed, a get_tasks call that repeats the query of
\* the call before it returns the same sequence, and a call for another page of the
\* same filters and page size returns none of the tasks the call before it returned,
\* also when tasks share their created_at.
C23_ReproduciblePages ==
    [][(/\ Begins("get_tasks") /\ last.op = "get_tasks" /\ tasks' = tasks
        /\ FiltersOf(last'.id) = FiltersOf(last.id)
        /\ EffectivePerPage(last'.id) = EffectivePerPage(last.id))
         => /\ EffectivePage(last'.id) = EffectivePage(last.id) => last'.body = last.body
            /\ EffectivePage(last'.id) # EffectivePage(last.id)
                  => \A i \in DOMAIN last.body, j \in DOMAIN last'.body :
                        last.body[i].id # last'.body[j].id]_vars

\* C24: every token create_token has issued expires strictly after it was issued,
\* whatever lifetime the configuration was loaded with.
C24_ExpiryAfterIssue == \A t \in tokens : t.exp > t.iat

\* C25: a create_task that stores a task (the caller is no Admin, the body valid)
\* stores urgency Medium when the body has no urgency, and the urgency of the body
\* otherwise.
C25_DefaultUrgency ==
    [][(Begins("create_task") /\ last'.result.kind = "Created")
         => \A w \in Workers, p \in CreateBodiesAll :
               CreateTask(w, last'.auth, p)
                 => FromRow(tasks'[last'.id][1]).urgency =
                      IF p.urgency = None THEN "Medium" ELSE p.urgency[1]]_vars

\* A task has just been created with the urgency Critical that its request named.
C25_Witness ==
    /\ last.op = "create_task"
    /\ last.result.kind = "Created"
    /\ IsSome(tasks[last.id])
    /\ tasks[last.id][1].urgency = "critical"

\* The answers that refuse a request, and those that report success.
Refusals == {"Unauthorized", "Forbidden", "NotFound", "BadRequest", "Conflict"}
Successes == {"Ok", "Created", "NoContent"}

\* C26: a step that answers Unauthorized, Forbidden, NotFound, BadRequest or Conflict
\* changes no row of users and no row of tasks; and a step that changes a store
\* reports success and has written, inserted or deleted exactly one row of one store.
C26_RefusalsChangeNothing ==
    [][/\ last'.result.kind \in Refusals => users' = users /\ tasks' = tasks
       /\ (users' # users \/ tasks' # tasks)
            => /\ last'.result.kind \in Successes
               /\ Cardinality({u \in UserIds : users'[u] # users[u]})
                    + Cardinality({t \in TaskIds : tasks'[t] # tasks[t]}) = 1]_vars

\* A Tester asked to delete a task of another user, was answered Forbidden, and the
\* task is there.
C26_Witness ==
    /\ last.op = "delete_task"
    /\ last.result.kind = "Forbidden"
    /\ last.auth.role = "Tester"
    /\ Exists(last.id)
    /\ tasks[last.id][1].assigned_by # last.auth.user_id

\* C27: a delete_task that reports success has removed a task that was there (ids are
\* never given twice, so each task is deleted successfully at most once), and one
\* whose task is gone by the time of its DELETE is answered NotFound.
C27_DeletedAtMostOnce ==
    [][\A w \in Workers :
          (req[w].pc = "delete_exec" /\ req'[w].pc = "idle")
            => IF Exists(req[w].id)
                 THEN last'.result.kind = "NoContent" /\ ~IsSome(tasks'[req[w].id])
                 ELSE last'.result.kind = "NotFound"]_vars

\* What the claims of the token and the resource named decide for each operation
\* that checks a permission: TRUE when the request is to be refused as Forbidden.
Denied(op, auth, id) ==
    CASE op \in {"create_task", "update_task"} -> auth.role = "Admin"
      [] op = "delete_task" ->
            \/ auth.role = "Admin"
            \/ /\ Exists(id)
               /\ tasks[id][1].assigned_by # auth.user_id
               /\ auth.role # "Manager"
      [] op \in {"get_user", "create_user", "update_user", "delete_user"} ->
            auth.role # "Admin"
      [] op = "get_employee_stats" -> auth.role \notin {"Manager", "Admin"}

GatedOps ==
    {"create_task", "update_task", "delete_task", "get_user", "create_user", "update_user",
     "delete_user", "get_employee_stats"}

\* C28: whether a request is refused as Forbidden is decided by the role and the user
\* id of the caller's token and by the task named, in every state of the user store:
\* whatever role is stored for the caller, whether the account is active, and whether
\* it exists at all.
C28_DecisionByTokenOnly ==
    [][\A op \in GatedOps :
          Begins(op)
            => (last'.result.kind = "Forbidden") = Denied(op, last'.auth, last'.id)]_vars

\* A caller whose token says Manager has read the statistics while the role stored
\* for the account is Tester.
C28_Witness ==
    /\ last.op = "get_employee_stats"
    /\ last.result.kind = "Ok"
    /\ last.auth.role = "Manager"
    /\ UserExists(last.auth.user_id)
    /\ users[last.auth.user_id][1].role = "tester"

(***************************************************************************)
(* Account management by administrators that come and go.                  *)
(***************************************************************************)
\* The administrator a create_user request adds.
SecondAdmin == [Bob EXCEPT !.role = "Admin"]

\* The callers that hold a token saying Admin: the seeded administrator, and every
\* account created since, each of which was created as an administrator and logged
\* in then.  The token stays valid whatever happens to the account afterwards.
TokenHolders ==
    { a \in AuthUser :
        /\ a.user_id <= user_seq
        /\ a.role = "Admin"
        /\ a.username = IF a.user_id = 1 THEN "admin" ELSE "bob" }

NextAccounts ==
    \/ \E w \in Workers, auth \in TokenHolders : CreateUserBegin(w, auth, SecondAdmin)
    \/ \E w \in Workers : CreateUserInsert(w)
    \/ \E w \in Workers, auth \in TokenHolders, id \in TargetIds, p \in AccountChanges :
          UpdateUserBegin(w, auth, id, p)
    \/ \E w \in Workers : UpdateUserWrite(w)
    \/ \E w \in Workers, auth \in TokenHolders, id \in TargetIds : DeleteUser(w, auth, id)

SpecAccounts == Init /\ [][NextAccounts]_vars

\* C29: from the store that holds the seeded administrator, whatever create_user,
\* update_user and delete_user requests the holders of valid tokens make, at least
\* one user account is left in the store.
C29_SomeAccountLeft == \E u \in UserIds : UserExists(u)

\* C30: update_task and delete_task look at the caller's role before they look the
\* task up: an Admin is refused Forbidden whether or not the task exists, and any
\* other caller that names a task that does not exist is answered NotFound, except
\* that update_task validates the body in between and answers BadRequest to an
\* invalid one.  delete_user refuses a caller that is not an Admin as Forbidden
\* before it compares the id with the caller's or looks the account up.
C30_RoleCheckFirst ==
    [][/\ Begins("update_task")
            => IF last'.auth.role = "Admin"
                 THEN last'.result.kind = "Forbidden"
                 ELSE ~Exists(last'.id)
                        => \A w \in Workers, p \in UpdateBodiesAll :
                              UpdateTaskBegin(w, last'.auth, last'.id, p)
                                => last'.result.kind =
                                     IF ValidUpdate(p) THEN "NotFound" ELSE "BadRequest"
       /\ Begins("delete_task")
            => IF last'.auth.role = "Admin"
                 THEN last'.result.kind = "Forbidden"
                 ELSE ~Exists(last'.id) => last'.result.kind = "NotFound"
       /\ Begins("delete_user")
            => (last'.auth.role # "Admin" => last'.result.kind = "Forbidden")]_vars

\* An Admin has been refused the deletion of a task that does not exist.
C30_Witness ==
    /\ last.op = "delete_task"
    /\ last.auth.role = "Admin"
    /\ last.result.kind = "Forbidden"
    /\ ~Exists(last.id)

\* C30 as stated: every caller but an Admin that names a task that does not exist
\* is answered NotFound, by update_task as by delete_task.
C30_MissingTaskIsNotFound ==
    [][\A op \in {"update_task", "delete_task"} :
          Begins(op)
            => IF last'.auth.role = "Admin"
                 THEN last'.result.kind = "Forbidden"
                 ELSE ~Exists(last'.id) => last'.result.kind = "NotFound"]_vars

(***************************************************************************)
(* Listings asked for with pages far from the first.                       *)
(***************************************************************************)
\* Query strings at the ends of i64, page 2^62 + 1 of pages of 4, and the second page.
FarPagings ==
    { [page |-> Some(i64(2)), per_page |-> None],
      [page |-> Some(i64_MIN), per_page |-> Some(i64_MIN)],
      [page |-> Some(i64_MAX), per_page |-> Some(i64(1))],
      [page |-> Some(i64_MAX), per_page |-> Some(i64(3))],
      [page |-> Some(i64_MAX), per_page |-> Some(i64_MAX)],
      [page |-> Some(<<1, 0, 0, 2^14>>), per_page |-> Some(i64(4))] }
FarQueries ==
    {[page |-> g.page, per_page |-> g.per_page, status |-> None, urgency |-> None,
      tester_id |-> None, assigned_by |-> None] : g \in FarPagings}

NextOffsets ==
    \/ \E w \in Workers, params \in FarQueries : GetTasks(w, Author, params)
    \/ \E w \in Workers, params \in FarPagings :
          GetUsers(w, CHOOSE a \in Admins : a.user_id = 1, params)

SpecOffsets == InitLists /\ [][NextOffsets]_vars

\* C31: whatever page and per_page a get_tasks or get_users request names, the offset
\* the handler computes, (max(page, 1) - 1) * clamp(per_page, 1, 100), is within the
\* range of i64 and is not negative.
C31_OffsetInRange ==
    [][((Begins("get_tasks") \/ Begins("get_users")) /\ last'.result.kind # "Forbidden")
         => /\ ~OffsetOverflows(last'.id)
            /\ ~is_negative(Offset(last'.id))]_vars

=============================================================================
